---- MODULE Spec2Model ----
(***************************************************************************)
(* A model of ext4extract: the ext4 on-disk parser (class Ext4 of          *)
(* ext4extract.py) and the extraction driver (class Application of app.py).*)
(*                                                                         *)
(* The image is a byte string, and every record the program unpacks        *)
(* (superblock, group descriptor, inode, extent header and entries,        *)
(* directory records) is unpacked here from the same byte offsets with the *)
(* same little-endian layouts.  A byte string is kept as its runs: a        *)
(* sequence of <<byte, lo, hi>>, the byte that fills positions lo..hi-1,   *)
(* starting at 0, without gaps, no two adjacent runs with the same byte.   *)
(* That keeps the program's real sizes (1024-byte blocks, the 60-byte      *)
(* i_block) while the values stay small.                                   *)
(***************************************************************************)
EXTENDS Integers, Sequences, FiniteSets, TLC

(***************************************************************************)
(* Byte strings (Python bytes) and their operations.                       *)
(***************************************************************************)
BLen(s) == IF s = <<>> THEN 0 ELSE s[Len(s)][3]

BFill(b, n) == IF n <= 0 THEN <<>> ELSE << <<b, 0, n>> >>

BShift(s, d) == [k \in 1..Len(s) |-> <<s[k][1], s[k][2] + d, s[k][3] + d>>]

\* a + b
BCat(a, b) ==
    IF a = <<>> THEN b
    ELSE IF b = <<>> THEN a
    ELSE IF a[Len(a)][1] = b[1][1]
    THEN SubSeq(a, 1, Len(a) - 1)
         \o << <<b[1][1], a[Len(a)][2], b[1][3] + BLen(a)>> >>
         \o Tail(BShift(b, BLen(a)))
    ELSE a \o BShift(b, BLen(a))

\* s[:n]
BTake(s, n) ==
    IF n <= 0 THEN <<>>
    ELSE IF n >= BLen(s) THEN s
    ELSE LET m == CHOOSE k \in 1..Len(s) : s[k][2] < n /\ n <= s[k][3]
         IN  [k \in 1..m |-> IF k = m THEN <<s[k][1], s[k][2], n>> ELSE s[k]]

\* s[n:]
BDrop(s, n) ==
    IF n <= 0 THEN s
    ELSE IF n >= BLen(s) THEN <<>>
    ELSE LET m == CHOOSE k \in 1..Len(s) : s[k][2] <= n /\ n < s[k][3]
         IN  [k \in 1..(Len(s) - m + 1) |->
                <<s[k + m - 1][1],
                  IF s[k + m - 1][2] < n THEN 0 ELSE s[k + m - 1][2] - n,
                  s[k + m - 1][3] - n>>]

\* Python s[lo:hi] for 0 <= lo: clamped at the end of s, empty when hi <= lo.
BSlice(s, lo, hi) == BTake(BDrop(s, lo), hi - lo)

\* s[i] for 0 <= i < len(s)
BAt(s, i) == s[CHOOSE k \in 1..Len(s) : s[k][2] <= i /\ i < s[k][3]][1]

\* bytes([b1, b2, ...])
RECURSIVE BLit(_)
BLit(seq) ==
    IF seq = <<>> THEN <<>> ELSE BCat(BFill(seq[1], 1), BLit(Tail(seq)))

\* struct.unpack of little-endian unsigned fields at byte offset o of s.
U8(s, o)  == BAt(s, o)
U16(s, o) == BAt(s, o) + 256 * BAt(s, o + 1)
U32(s, o) == BAt(s, o) + 256 * BAt(s, o + 1) + 65536 * BAt(s, o + 2)
             + 16777216 * BAt(s, o + 3)

\* x & mask for a mask that is a single bit (a power of two): nonzero or not.
BitSet(x, bit) == (x \div bit) % 2 = 1

\* mode & 0xf000
ModeType(mode) == ((mode \div 4096) % 16) * 4096

\* Python integers are unbounded.  An offset beyond FarOffset, which is far
\* past the end of every image, is kept as FarOffset: a seek to any of them
\* succeeds and a read there returns no bytes.
FarOffset == 536870912

Far(x) == IF x > FarOffset THEN FarOffset ELSE x

Times(a, b) == IF a > 0 /\ b > 0 /\ a > FarOffset \div b THEN FarOffset ELSE a * b

(***************************************************************************)
(* The backing source: a Python file object opened "rb" on the image.      *)
(* f = [open, pos, log]; log lists the seeks and reads of the current      *)
(* facade call.                                                            *)
(***************************************************************************)
FOpen == [open |-> TRUE, pos |-> 0, log |-> <<>>]

NoFile == [open |-> FALSE, pos |-> 0, log |-> <<>>]

\* file.seek(off): OSError for a negative offset (the cursor stays); a seek
\* past the end of the file is allowed.
FSeekOk(off) == off >= 0

FSeek(f, off) ==
    [f EXCEPT !.pos = IF FSeekOk(off) THEN off ELSE @,
              !.log = Append(@, <<"seek", off>>)]

\* file.read(n): the bytes at the cursor, fewer at the end of the file.
FData(img, f, n) == BSlice(img, f.pos, f.pos + n)

FRead(img, f, n) ==
    [f EXCEPT !.pos = @ + BLen(FData(img, f, n)),
              !.log = Append(@, <<"read", n>>)]

OK == "ok"

\* self._ext4.read(n) where a seek is missing: the bytes at the cursor as the
\* last read left it.
ReadAtCursor(img, f, off, n) ==
    [err |-> OK, data |-> FData(img, f, n), f |-> FRead(img, f, n)]

\* self._ext4.seek(off) followed by self._ext4.read(n): the exception of the
\* seek or the bytes read, and the file as the two calls left it.
SeekRead(img, f, off, n) ==
    IF ~FSeekOk(off)
    THEN [err |-> "OSError", data |-> <<>>, f |-> FSeek(f, off)]
    ELSE [err |-> OK, data |-> FData(img, FSeek(f, off), n),
          f |-> FRead(img, FSeek(f, off), n)]

(***************************************************************************)
(* class Ext4: the object is self = [superblock, block_size, f].           *)
(* Every method returns a record with err = OK or the exception raised,    *)
(* and the object as the call left it.  A method is written as a chain of  *)
(* operators, each taking the values the statements before it computed.    *)
(***************************************************************************)
SUPERBLOCK_MAGIC == 61267

EXTENT_MAGIC == 62218

FILETYPE == 2

INLINE_FL == 268435456

EXTENTS_FL == 524288

S_IFLNK == 40960

IBlockLen == 60

\* unpack(__SUPERBLOCK_PACK__, ...): the fields the program reads.
SuperBlock(b) ==
    [s_inodes_count     |-> U32(b, 0),
     s_first_data_block |-> U32(b, 20),
     s_log_block_size   |-> U32(b, 24),
     s_blocks_per_group |-> U32(b, 32),
     s_inodes_per_group |-> U32(b, 40),
     s_magic            |-> U16(b, 56),
     s_inode_size       |-> U16(b, 88),
     s_feature_incompat |-> U32(b, 96)]

NoSuperBlock == SuperBlock(BFill(0, 204))

\* unpack(__GROUP_DESCRIPTOR_PACK__, ...)
GroupDescriptor(b) == [bg_inode_table_lo |-> U32(b, 8)]

\* unpack(__INODE_PACK__, ...)
Inode(b) ==
    [i_mode    |-> U16(b, 0),
     i_uid     |-> U16(b, 2),
     i_size_lo |-> U32(b, 4),
     i_atime   |-> U32(b, 8),
     i_ctime   |-> U32(b, 12),
     i_mtime   |-> U32(b, 16),
     i_gid     |-> U16(b, 24),
     i_flags   |-> U32(b, 32),
     i_block   |-> BSlice(b, 40, 40 + IBlockLen)]

NoInode == Inode(BFill(0, 128))

\* Ext4.__init__ without a filename
Ext4Init == [superblock |-> NoSuperBlock, block_size |-> 1024, f |-> NoFile]

\* Ext4.load, lines 242-245, on the 204 bytes read
load_unpack(io) ==
    IF BLen(io.data) < 204
    THEN [err |-> "struct.error", self |-> [Ext4Init EXCEPT !.f = io.f]]
    ELSE IF SuperBlock(io.data).s_magic # SUPERBLOCK_MAGIC
    THEN [err  |-> "RuntimeError: Bad superblock magic",
          self |-> [Ext4Init EXCEPT !.f = io.f,
                                    !.superblock = SuperBlock(io.data)]]
    ELSE [err  |-> OK,
          self |-> [superblock |-> SuperBlock(io.data),
                    block_size |-> 2 ^ (10 + SuperBlock(io.data).s_log_block_size),
                    f          |-> io.f]]

\* Ext4.load
load(img) == load_unpack(SeekRead(img, FOpen, 1024, 204))

\* Ext4._read_group_descriptor, line 193, on the 32 bytes read
read_group_descriptor_unpack(self, io) ==
    IF io.err # OK
    THEN [err |-> io.err, gd |-> GroupDescriptor(BFill(0, 32)),
          self |-> [self EXCEPT !.f = io.f]]
    ELSE IF BLen(io.data) < 32
    THEN [err |-> "struct.error", gd |-> GroupDescriptor(BFill(0, 32)),
          self |-> [self EXCEPT !.f = io.f]]
    ELSE [err |-> OK, gd |-> GroupDescriptor(io.data),
          self |-> [self EXCEPT !.f = io.f]]

\* Ext4._read_group_descriptor
read_group_descriptor(img, self, bg_num) ==
    read_group_descriptor_unpack(self,
        SeekRead(img, self.f,
                 Far((self.superblock.s_first_data_block + 1) * self.block_size
                     + Times(bg_num, 64)),
                 32))

\* A group number taken from inode_num instead of inode_num - 1.
inode_bg_num_from_zero(sb, inode_num) == inode_num \div sb.s_inodes_per_group

\* Ext4._read_inode, lines 196-197: the block group and the index in it.
\* Python's // and % floor, as \div and % do.
inode_bg_num(sb, inode_num) == (inode_num - 1) \div sb.s_inodes_per_group

bg_inode_idx(sb, inode_num) == (inode_num - 1) % sb.s_inodes_per_group

\* Ext4._read_inode, line 203, on the 128 bytes read
read_inode_unpack(self, bg, idx, io) ==
    IF io.err # OK
    THEN [err |-> io.err, inode |-> NoInode, bg |-> bg, idx |-> idx,
          self |-> [self EXCEPT !.f = io.f]]
    ELSE IF BLen(io.data) < 128
    THEN [err |-> "struct.error", inode |-> NoInode, bg |-> bg, idx |-> idx,
          self |-> [self EXCEPT !.f = io.f]]
    ELSE [err |-> OK, inode |-> Inode(io.data), bg |-> bg, idx |-> idx,
          self |-> [self EXCEPT !.f = io.f]]

\* Ext4._read_inode, lines 199-203, with the group descriptor read
read_inode_at(img, bg, idx, gd) ==
    IF gd.err # OK
    THEN [err |-> gd.err, inode |-> NoInode, bg |-> bg, idx |-> idx,
          self |-> gd.self]
    ELSE read_inode_unpack(gd.self, bg, idx,
            SeekRead(img, gd.self.f,
                Far(Times(Times(bg, gd.self.superblock.s_blocks_per_group),
                          gd.self.block_size)
                    + Times(gd.gd.bg_inode_table_lo, gd.self.block_size)
                    + Times(idx, gd.self.superblock.s_inode_size)),
                128))

\* Ext4._read_inode: returns (inode, inode_bg_num)
read_inode(img, self, inode_num) ==
    IF self.superblock.s_inodes_per_group = 0
    THEN [err |-> "ZeroDivisionError", inode |-> NoInode, bg |-> 0, idx |-> 0,
          self |-> self]
    ELSE read_inode_at(img, inode_bg_num(self.superblock, inode_num),
                       bg_inode_idx(self.superblock, inode_num),
                       read_group_descriptor(img, self,
                            inode_bg_num(self.superblock, inode_num)))

\* unpack(__EXTENT_HEADER_PACK__, ...)
ExtentHeader(b) ==
    [eh_magic      |-> U16(b, 0),
     eh_entries    |-> U16(b, 2),
     eh_max        |-> U16(b, 4),
     eh_depth      |-> U16(b, 6),
     eh_generation |-> U32(b, 8)]

\* unpack(__EXTENT_INDEX_PACK__, ...)
ExtentIndex(b) ==
    [ei_block   |-> U32(b, 0),
     ei_leaf_lo |-> U32(b, 4),
     ei_leaf_hi |-> U16(b, 8),
     ei_unused  |-> U16(b, 10)]

\* unpack(__EXTENT_ENTRY_PACK__, ...)
ExtentEntry(b) ==
    [ee_block    |-> U32(b, 0),
     ee_len      |-> U16(b, 4),
     ee_start_hi |-> U16(b, 6),
     ee_start_lo |-> U32(b, 8)]

\* Python's recursion limit (1000 frames by default), scaled to the model:
\* _read_extent nested deeper than this raises RecursionError.
MaxDepth == 3

\* An extent's bytes put before the ones read so far.
extent_prepend(data, more) == BCat(more, data)

\* line 216: data += self._ext4.read(...)
extent_append(data, more) == BCat(data, more)

\* Ext4._read_extent.  read_extent is the call; read_extent_for is the for
\* loop from entry eex on; read_extent_entry is the loop body on entry_raw;
\* read_extent_leaf and read_extent_index are the two branches, after their
\* seek and read; read_extent_lower is line 221 after the recursive call.
\* level is the depth of the Python call stack.
RECURSIVE read_extent(_, _, _, _, _, _)
RECURSIVE read_extent_for(_, _, _, _, _, _, _, _)
RECURSIVE read_extent_entry(_, _, _, _, _, _, _, _, _)
RECURSIVE read_extent_leaf(_, _, _, _, _, _, _, _, _)
RECURSIVE read_extent_index(_, _, _, _, _, _, _, _, _)
RECURSIVE read_extent_lower(_, _, _, _, _, _, _)
read_extent_lower(img, bg, extent_block, hdr, eex, level, sub) ==
    IF sub.err # OK THEN sub
    ELSE read_extent_for(img, sub.self, sub.data, bg, extent_block, hdr,
                         eex + 1, level)

read_extent_index(img, self, data, bg, extent_block, hdr, eex, level, io) ==
    IF io.err # OK
    THEN [err |-> io.err, data |-> data, self |-> [self EXCEPT !.f = io.f]]
    ELSE read_extent_lower(img, bg, extent_block, hdr, eex, level,
            read_extent(img, [self EXCEPT !.f = io.f], data, bg, io.data,
                        level + 1))

read_extent_leaf(img, self, data, bg, extent_block, hdr, eex, level, io) ==
    IF io.err # OK
    THEN [err |-> io.err, data |-> data, self |-> [self EXCEPT !.f = io.f]]
    ELSE read_extent_for(img, [self EXCEPT !.f = io.f],
                         extent_append(data, io.data),
                         bg, extent_block, hdr, eex + 1, level)

read_extent_entry(img, self, data, bg, extent_block, hdr, eex, level, entry_raw) ==
    IF BLen(entry_raw) < 12
    THEN [err |-> "struct.error", data |-> data, self |-> self]
    ELSE IF hdr.eh_depth = 0
    THEN read_extent_leaf(img, self, data, bg, extent_block, hdr, eex, level,
            SeekRead(img, self.f,
                Times(Far(Times(bg, self.superblock.s_blocks_per_group)
                          + ExtentEntry(entry_raw).ee_start_lo),
                      self.block_size),
                self.block_size * ExtentEntry(entry_raw).ee_len))
    ELSE read_extent_index(img, self, data, bg, extent_block, hdr, eex, level,
            SeekRead(img, self.f,
                Times(Far(Times(bg, self.superblock.s_blocks_per_group)
                          + ExtentIndex(entry_raw).ei_leaf_lo),
                      self.block_size),
                self.block_size))

read_extent_for(img, self, data, bg, extent_block, hdr, eex, level) ==
    IF eex >= hdr.eh_entries
    THEN [err |-> OK, data |-> data, self |-> self]
    ELSE read_extent_entry(img, self, data, bg, extent_block, hdr, eex, level,
            BSlice(extent_block, 12 + (eex * 12), 12 + (eex * 12) + 12))

read_extent(img, self, data, bg, extent_block, level) ==
    IF level > MaxDepth
    THEN [err |-> "RecursionError", data |-> data, self |-> self]
    ELSE IF BLen(BSlice(extent_block, 0, 12)) < 12
    THEN [err |-> "struct.error", data |-> data, self |-> self]
    ELSE IF ExtentHeader(BSlice(extent_block, 0, 12)).eh_magic # EXTENT_MAGIC
    THEN [err |-> "RuntimeError: Bad extent magic", data |-> data, self |-> self]
    ELSE read_extent_for(img, self, data, bg, extent_block,
                         ExtentHeader(BSlice(extent_block, 0, 12)), 0, level)

\* Ext4._read_data
read_data(img, self, bg, inode) ==
    IF inode.i_size_lo = 0
    THEN [err |-> OK, data |-> <<>>, self |-> self]
    ELSE IF BitSet(inode.i_flags, INLINE_FL)
            \/ (ModeType(inode.i_mode) = S_IFLNK /\ inode.i_size_lo <= 60)
    THEN [err |-> OK, data |-> inode.i_block, self |-> self]
    ELSE IF BitSet(inode.i_flags, EXTENTS_FL)
    THEN read_extent(img, self, <<>>, bg, inode.i_block, 1)
    ELSE [err |-> "RuntimeError: Mapped Inodes is not supported",
          data |-> <<>>, self |-> self]

\* line 286: data[:inode.i_size_lo]
file_truncate(data, size_lo) == BTake(data, size_lo)

\* Ext4.read_file, line 286, with the data read
read_file_return(ri, rd) ==
    IF rd.err # OK
    THEN [err |-> rd.err, data |-> <<>>, atime |-> 0, mtime |-> 0,
          self |-> rd.self]
    ELSE [err |-> OK, data |-> file_truncate(rd.data, ri.inode.i_size_lo),
          atime |-> ri.inode.i_atime, mtime |-> ri.inode.i_mtime,
          self |-> rd.self]

\* Ext4.read_file, lines 284-286, with the inode read
read_file_inode(img, ri) ==
    IF ri.err # OK
    THEN [err |-> ri.err, data |-> <<>>, atime |-> 0, mtime |-> 0,
          self |-> ri.self]
    ELSE read_file_return(ri, read_data(img, ri.self, ri.bg, ri.inode))

\* Ext4.read_file: returns (data, atime, mtime)
read_file(img, self, inode_num) ==
    read_file_inode(img, read_inode(img, self, inode_num))

(***************************************************************************)
(* bytes.decode('utf-8') and str.encode('utf-8').  A str is kept as the    *)
(* runs of its code points, as a byte string is of its bytes.              *)
(***************************************************************************)
Utf8Len(b) ==
    IF b < 128 THEN 1
    ELSE IF b >= 194 /\ b <= 223 THEN 2
    ELSE IF b >= 224 /\ b <= 239 THEN 3
    ELSE IF b >= 240 /\ b <= 244 THEN 4
    ELSE 0

Utf8Cont(s, i) == i < BLen(s) /\ BAt(s, i) >= 128 /\ BAt(s, i) <= 191

Utf8CodePoint(s, k) ==
    IF k = 2 THEN (BAt(s, 0) - 192) * 64 + (BAt(s, 1) - 128)
    ELSE IF k = 3
    THEN (BAt(s, 0) - 224) * 4096 + (BAt(s, 1) - 128) * 64 + (BAt(s, 2) - 128)
    ELSE (BAt(s, 0) - 240) * 262144 + (BAt(s, 1) - 128) * 4096
         + (BAt(s, 2) - 128) * 64 + (BAt(s, 3) - 128)

Utf8Valid(cp, k) ==
    IF k = 2 THEN cp >= 128
    ELSE IF k = 3 THEN cp >= 2048 /\ ~(cp >= 55296 /\ cp <= 57343)
    ELSE cp >= 65536 /\ cp <= 1114111

\* the decoded first characters followed by the decoded rest
Utf8Then(first, rest) ==
    IF rest.err # OK THEN rest
    ELSE [err |-> OK, text |-> BCat(first, rest.text)]

\* Where the first byte of s that is not ASCII stands; len(s) if there is none.
AsciiLen(s) ==
    IF \A k \in 1..Len(s) : s[k][1] < 128 THEN BLen(s)
    ELSE s[CHOOSE k \in 1..Len(s) :
                /\ s[k][1] >= 128
                /\ \A j \in 1..(k - 1) : s[j][1] < 128][2]

\* bytes.decode('utf-8'), strict: [err, text].  utf8_decode_char decodes s,
\* which starts with a byte that is not ASCII, after the ASCII bytes `head`.
RECURSIVE utf8_decode(_)
utf8_decode_char(head, s) ==
    IF Utf8Len(s[1][1]) = 0
    THEN [err |-> "UnicodeDecodeError", text |-> <<>>]
    ELSE IF \E i \in 1..(Utf8Len(s[1][1]) - 1) : ~Utf8Cont(s, i)
    THEN [err |-> "UnicodeDecodeError", text |-> <<>>]
    ELSE IF ~Utf8Valid(Utf8CodePoint(s, Utf8Len(s[1][1])), Utf8Len(s[1][1]))
    THEN [err |-> "UnicodeDecodeError", text |-> <<>>]
    ELSE Utf8Then(BCat(head, BFill(Utf8CodePoint(s, Utf8Len(s[1][1])), 1)),
                  utf8_decode(BDrop(s, Utf8Len(s[1][1]))))

utf8_decode(s) ==
    IF AsciiLen(s) = BLen(s) THEN [err |-> OK, text |-> s]
    ELSE utf8_decode_char(BTake(s, AsciiLen(s)), BDrop(s, AsciiLen(s)))

Utf8Char(cp) ==
    IF cp < 128 THEN BLit(<<cp>>)
    ELSE IF cp < 2048 THEN BLit(<<192 + (cp \div 64), 128 + (cp % 64)>>)
    ELSE IF cp < 65536
    THEN BLit(<<224 + (cp \div 4096), 128 + ((cp \div 64) % 64),
                128 + (cp % 64)>>)
    ELSE BLit(<<240 + (cp \div 262144), 128 + ((cp \div 4096) % 64),
                128 + ((cp \div 64) % 64), 128 + (cp % 64)>>)

RECURSIVE BRepeat(_, _)
BRepeat(s, n) == IF n <= 0 THEN <<>> ELSE BCat(s, BRepeat(s, n - 1))

\* str.encode('utf-8').  utf8_encode_char encodes t, which starts with a
\* character that is not ASCII, after the ASCII characters `head`.
RECURSIVE utf8_encode(_)
utf8_encode_char(head, t) ==
    BCat(BCat(head, BRepeat(Utf8Char(t[1][1]), t[1][3])),
         utf8_encode(BDrop(t, t[1][3])))

utf8_encode(t) ==
    IF AsciiLen(t) = BLen(t) THEN t
    ELSE utf8_encode_char(BTake(t, AsciiLen(t)), BDrop(t, AsciiLen(t)))

\* line 291: [:inode.i_size_lo] of the decoded string
link_slice(dec, size_lo) == [err |-> dec.err, text |-> BTake(dec.text, size_lo)]

\* line 291: .decode('utf-8')[:inode.i_size_lo]
link_decode(data, size_lo) == link_slice(utf8_decode(data), size_lo)

\* Ext4.read_link, line 291, with the data read
read_link_return(ri, rd, ld) ==
    IF rd.err # OK THEN [err |-> rd.err, text |-> <<>>, self |-> rd.self]
    ELSE [err |-> ld.err, text |-> ld.text, self |-> rd.self]

read_link_data(ri, rd) ==
    read_link_return(ri, rd, link_decode(rd.data, ri.inode.i_size_lo))

\* Ext4.read_link, lines 289-291, with the inode read
read_link_inode(img, ri) ==
    IF ri.err # OK THEN [err |-> ri.err, text |-> <<>>, self |-> ri.self]
    ELSE read_link_data(ri, read_data(img, ri.self, ri.bg, ri.inode))

\* Ext4.read_link
read_link(img, self, inode_num) ==
    read_link_inode(img, read_inode(img, self, inode_num))

\* unpack(__DIR_ENTRY_PACK__, ...)
DirEntryClassic(b) ==
    [inode |-> U32(b, 0), rec_len |-> U16(b, 4), name_len |-> U16(b, 6)]

\* unpack(__DIR_ENTRY_V2_PACK__, ...)
DirEntryV2(b) ==
    [inode |-> U32(b, 0), rec_len |-> U16(b, 4), name_len |-> U8(b, 6),
     file_type |-> U8(b, 7)]

\* Ext4.DirEntry()
NoDirEntry == [inode |-> 0, name |-> <<>>, type |-> 0]

\* lines 262-276: entry.type from i_mode & 0xf000 (left at 0 otherwise)
mode_type(i_mode) ==
    IF ModeType(i_mode) = 4096 THEN 5
    ELSE IF ModeType(i_mode) = 8192 THEN 3
    ELSE IF ModeType(i_mode) = 16384 THEN 2
    ELSE IF ModeType(i_mode) = 24576 THEN 4
    ELSE IF ModeType(i_mode) = 32768 THEN 1
    ELSE IF ModeType(i_mode) = 40960 THEN 7
    ELSE IF ModeType(i_mode) = 49152 THEN 6
    ELSE 0

\* The value of the call self._read_inode(...): the Python tuple (inode, bg),
\* a value whose only components are its two items.
read_inode_value(ri) == [item0 |-> ri.inode, item1 |-> ri.bg]

\* line 261: entry_inode = self._read_inode(dir_entry.inode)
entry_inode_of(ri) == read_inode_value(ri)

DirFail(e, self) ==
    [err |-> e, entry |-> NoDirEntry, rec_len |-> 0, self |-> self]

\* lines 277-280 of an iteration: the entry, with the name decoded
dir_step_name(self, dir_entry, type, name) ==
    IF name.err # OK THEN DirFail(name.err, self)
    ELSE [err     |-> OK,
          entry   |-> [inode |-> dir_entry.inode, name |-> name.text,
                       type |-> type],
          rec_len |-> dir_entry.rec_len,
          self    |-> self]

\* lines 262-276 of an iteration: entry_inode.i_mode, of the value line 261 got
dir_step_mode(dir_raw, offset, dir_entry, ri, entry_inode) ==
    IF "i_mode" \notin DOMAIN entry_inode
    THEN DirFail("AttributeError", ri.self)
    ELSE dir_step_name(ri.self, dir_entry, mode_type(entry_inode.i_mode),
            utf8_decode(BSlice(dir_raw, offset + 8,
                               offset + 8 + dir_entry.name_len)))

\* lines 260-261 of an iteration, with the entry's inode read
dir_step_classic(dir_raw, offset, dir_entry, ri) ==
    IF ri.err # OK THEN DirFail(ri.err, ri.self)
    ELSE dir_step_mode(dir_raw, offset, dir_entry, ri, entry_inode_of(ri))

\* Ext4.read_dir, lines 254-280: one iteration of the while loop at offset.
\* rec_len is what the iteration adds to offset.
dir_step_raw(img, self, dir_raw, offset, entry_raw) ==
    IF BLen(entry_raw) < 8 THEN DirFail("struct.error", self)
    ELSE IF BitSet(self.superblock.s_feature_incompat, FILETYPE)
    THEN dir_step_name(self, DirEntryV2(entry_raw),
            DirEntryV2(entry_raw).file_type,
            utf8_decode(BSlice(dir_raw, offset + 8,
                               offset + 8 + DirEntryV2(entry_raw).name_len)))
    ELSE dir_step_classic(dir_raw, offset, DirEntryClassic(entry_raw),
            read_inode(img, self, DirEntryClassic(entry_raw).inode))

dir_step(img, self, dir_raw, offset) ==
    dir_step_raw(img, self, dir_raw, offset, BSlice(dir_raw, offset, offset + 8))

\* Ext4.read_dir, line 250, with the inode read
read_dir_data(ri, rd) == [err |-> rd.err, dir_raw |-> rd.data, self |-> rd.self]

read_dir_inode(img, ri) ==
    IF ri.err # OK THEN [err |-> ri.err, dir_raw |-> <<>>, self |-> ri.self]
    ELSE read_dir_data(ri, read_data(img, ri.self, ri.bg, ri.inode))

\* Ext4.read_dir, lines 248-252: the inode and its data, before the loop.
read_dir_enter(img, self, inode_num) ==
    read_dir_inode(img, read_inode(img, self, inode_num))

\* Ext4.read_dir as one call.  The loop adds rec_len >= 0 to offset; an
\* iteration that adds 0 repeats itself for ever: "NoReturn".
RECURSIVE read_dir_while(_, _, _, _, _)
RECURSIVE read_dir_next(_, _, _, _, _)
read_dir_next(img, dir_raw, offset, dir_data, st) ==
    IF st.err # OK
    THEN [err |-> st.err, dir_data |-> <<>>, self |-> st.self]
    ELSE IF st.rec_len = 0
    THEN [err |-> "NoReturn", dir_data |-> <<>>, self |-> st.self]
    ELSE read_dir_while(img, st.self, dir_raw, offset + st.rec_len,
                        Append(dir_data, st.entry))

read_dir_while(img, self, dir_raw, offset, dir_data) ==
    IF ~(offset < BLen(dir_raw))
    THEN [err |-> OK, dir_data |-> dir_data, self |-> self]
    ELSE read_dir_next(img, dir_raw, offset, dir_data,
                       dir_step(img, self, dir_raw, offset))

read_dir_loop(img, en) ==
    IF en.err # OK
    THEN [err |-> en.err, dir_data |-> <<>>, self |-> en.self]
    ELSE read_dir_while(img, en.self, en.dir_raw, 0, <<>>)

read_dir(img, self, inode_num) ==
    read_dir_loop(img, read_dir_enter(img, self, inode_num))

(***************************************************************************)
(* Images.  The on-disk layouts of lines 11-18, written the way mkfs lays  *)
(* them out, so that the model reads images the program can be given.      *)
(***************************************************************************)
LE16(v) == BLit(<<v % 256, (v \div 256) % 256>>)

LE32(v) == BLit(<<v % 256, (v \div 256) % 256, (v \div 65536) % 256,
                  (v \div 16777216) % 256>>)

\* s with the bytes b written at offset off <= len(s)
BWrite(s, off, b) == BCat(BCat(BTake(s, off), b), BDrop(s, off + BLen(b)))

\* s with one write <<off, b>> after the other made
RECURSIVE BWriteAll(_, _)
BWriteRest(s, writes) == IF BLen(s) = 0 THEN s ELSE BWriteAll(s, writes)

BWriteAll(s, writes) ==
    IF writes = <<>> THEN s
    ELSE BWriteRest(BWrite(s, writes[1][1], writes[1][2]), Tail(writes))

PackSuperBlock(g) ==
    BWriteAll(BFill(0, 204),
        << <<0,  LE32(g.s_inodes_count)>>,
           <<20, LE32(g.s_first_data_block)>>,
           <<24, LE32(g.s_log_block_size)>>,
           <<32, LE32(g.s_blocks_per_group)>>,
           <<40, LE32(g.s_inodes_per_group)>>,
           <<56, LE16(g.s_magic)>>,
           <<88, LE16(g.s_inode_size)>>,
           <<96, LE32(g.s_feature_incompat)>> >>)

PackGroupDescriptor(inode_table_lo) ==
    BWrite(BFill(0, 32), 8, LE32(inode_table_lo))

PackInode(i) ==
    BWriteAll(BFill(0, 128),
        << <<0,  LE16(i.i_mode)>>,
           <<4,  LE32(i.i_size_lo)>>,
           <<8,  LE32(i.i_atime)>>,
           <<16, LE32(i.i_mtime)>>,
           <<32, LE32(i.i_flags)>>,
           <<40, BTake(BCat(i.i_block, BFill(0, IBlockLen)), IBlockLen)>> >>)

\* A leaf slot <<start, len>> and an index slot <<leaf>> of an extent node.
PackExtentSlot(depth, slot) ==
    IF depth = 0
    THEN BCat(BCat(LE32(0), LE16(slot[2])), BCat(LE16(0), LE32(slot[1])))
    ELSE BCat(BCat(LE32(0), LE32(slot[1])), LE32(0))

RECURSIVE PackExtentSlots(_, _)
PackExtentSlots(depth, slots) ==
    IF slots = <<>> THEN <<>>
    ELSE BCat(PackExtentSlot(depth, slots[1]),
              PackExtentSlots(depth, Tail(slots)))

\* An extent node: the header declares `entries` slots, `slots` are stored.
PackExtentNode(magic, entries, depth, slots) ==
    BCat(BCat(BCat(LE16(magic), LE16(entries)), BCat(LE16(4), LE16(depth))),
         BCat(LE32(0), PackExtentSlots(depth, slots)))

\* A directory record; the V2 layout keeps the kind in the byte after name_len.
PackDirEntry(v2, r) ==
    BCat(BCat(LE32(r.inode), LE16(r.rec_len)),
         BCat(IF v2 THEN BLit(<<r.name_len, r.file_type>>) ELSE LE16(r.name_len),
              BLit(r.name)))

\* The records written one after the other, each rec_len after the one before.
RECURSIVE PackDir(_, _, _, _)
PackDir(v2, blob, offset, recs) ==
    IF recs = <<>> \/ offset >= BLen(blob) THEN blob
    ELSE PackDir(v2,
                 BTake(BWrite(blob, offset, PackDirEntry(v2, recs[1])), BLen(blob)),
                 offset + recs[1].rec_len, Tail(recs))

\* The number of blocks of an image.
NumBlocks == 32

Geometry(ipg, count, isz, log, feature, magic) ==
    [s_inodes_count     |-> count,
     s_first_data_block |-> IF log = 0 THEN 1 ELSE 0,
     s_log_block_size   |-> log,
     s_blocks_per_group |-> 8,
     s_inodes_per_group |-> ipg,
     s_magic            |-> magic,
     s_inode_size       |-> isz,
     s_feature_incompat |-> feature]

BlockSize(g) == 2 ^ (10 + g.s_log_block_size)

\* Where the image keeps inode n: the inode table of its group starts 3 blocks
\* into the group.
InodeOffset(g, n) ==
    (((n - 1) \div g.s_inodes_per_group) * g.s_blocks_per_group + 3) * BlockSize(g)
    + ((n - 1) % g.s_inodes_per_group) * g.s_inode_size

RECURSIVE InodeWrites(_, _)
InodeWrites(g, inodes) ==
    IF inodes = <<>> \/ g.s_inodes_per_group = 0 THEN <<>>
    ELSE IF InodeOffset(g, inodes[1][1]) + 128 > NumBlocks * BlockSize(g)
    THEN InodeWrites(g, Tail(inodes))
    ELSE << <<InodeOffset(g, inodes[1][1]), PackInode(inodes[1][2])>> >>
         \o InodeWrites(g, Tail(inodes))

RECURSIVE BlockWrites(_, _)
BlockWrites(g, blocks) ==
    IF blocks = <<>> THEN <<>>
    ELSE << <<blocks[1][1] * BlockSize(g),
              BTake(BCat(blocks[1][2], BFill(0, BlockSize(g))), BlockSize(g))>> >>
         \o BlockWrites(g, Tail(blocks))

\* inodes: <<number, inode>> pairs; blocks: <<block, bytes>> pairs
MkImage(g, inodes, blocks) ==
    BWriteAll(BFill(0, NumBlocks * BlockSize(g)),
        << <<1024, PackSuperBlock(g)>>,
           <<(g.s_first_data_block + 1) * BlockSize(g), PackGroupDescriptor(3)>>,
           <<(g.s_first_data_block + 1) * BlockSize(g) + 64,
             PackGroupDescriptor(3)>> >>
        \o BlockWrites(g, blocks) \o InodeWrites(g, inodes))

\* File kinds of a directory record, and the i_mode of each
DirRec(inode, rec_len, name, file_type) ==
    [inode |-> inode, rec_len |-> rec_len, name_len |-> Len(name),
     file_type |-> file_type, name |-> name]

Leaf(slots) == PackExtentNode(EXTENT_MAGIC, Len(slots), 0, slots)

DataBlock(b, g) == <<b, BFill(64 + b, BlockSize(g))>>

DirInode(blk) ==
    [i_mode |-> 16877, i_size_lo |-> 1024, i_atime |-> 10, i_mtime |-> 20,
     i_flags |-> EXTENTS_FL, i_block |-> Leaf(<< <<blk, 1>> >>)]

FileInode(size, slots) ==
    [i_mode |-> 33188, i_size_lo |-> size, i_atime |-> 30, i_mtime |-> 40,
     i_flags |-> EXTENTS_FL, i_block |-> Leaf(slots)]

LinkInode(size, target) ==
    [i_mode |-> 41471, i_size_lo |-> size, i_atime |-> 50, i_mtime |-> 60,
     i_flags |-> 0, i_block |-> target]

\* The root of the images that are about something else than directories:
\* ".", "..", the file "a" (inode 3) and the symlink "b" (inode 4).
PlainRoot(g) ==
    <<8, PackDir(BitSet(g.s_feature_incompat, FILETYPE), BFill(0, BlockSize(g)), 0,
           << DirRec(2, 12, <<46>>, 2), DirRec(2, 12, <<46, 46>>, 2),
              DirRec(3, 12, <<97>>, 1),
              DirRec(4, BlockSize(g) - 36, <<98>>, 7) >>)>>

PlainBlocks(g) ==
    << PlainRoot(g), DataBlock(5, g), DataBlock(6, g), DataBlock(7, g),
       DataBlock(15, g) >>

PlainInodes ==
    << <<2, DirInode(8)>>, <<3, FileInode(6, << <<5, 1>> >>)>>,
       <<4, LinkInode(1, BLit(<<97>>))>> >>

G0 == Geometry(8, 16, 128, 0, FILETYPE, SUPERBLOCK_MAGIC)

\* Replace inode n of the plain inodes
WithInode(n, inode) ==
    [k \in 1..Len(PlainInodes) |->
        IF PlainInodes[k][1] = n THEN <<n, inode>> ELSE PlainInodes[k]]

(***************************************************************************)
(* The images the specifications start from.  A fixture names an image by  *)
(* the parameters it was built from; Image(fx) is the image.               *)
(***************************************************************************)
\* Geometries: inodes_per_group 0..MaxIpg, one or two groups of inodes,
\* inode records of 128 or 256 bytes, block size 1024 or 2048.
MaxIpg == 3

GeoFixtures ==
    { [fam |-> "geo", p |-> <<ipg, groups, isz, log>>] :
        ipg \in 0..MaxIpg, groups \in {1, 2}, isz \in {128, 256}, log \in {0, 1} }

GeoImage(p) ==
    MkImage(Geometry(p[1], p[1] * p[2], p[3], p[4], FILETYPE, SUPERBLOCK_MAGIC),
            PlainInodes,
            PlainBlocks(Geometry(p[1], p[1] * p[2], p[3], p[4], FILETYPE,
                                 SUPERBLOCK_MAGIC)))

\* Images load rejects or cannot read: a wrong magic, a file too short.
BadFixtures == { [fam |-> "bad", p |-> <<k>>] : k \in {"magic", "short", "empty"} }

BadImage(p) ==
    IF p[1] = "magic"
    THEN MkImage(Geometry(8, 16, 128, 0, FILETYPE, SUPERBLOCK_MAGIC + 1),
                 PlainInodes, PlainBlocks(G0))
    ELSE IF p[1] = "short" THEN BTake(MkImage(G0, PlainInodes, PlainBlocks(G0)), 1100)
    ELSE <<>>

\* Regular files (inode 3): every size_lo of FileSizes over every data layout
\* of FileLayouts: extents of up to MaxLen blocks each, the inline i_block, or
\* neither flag.
MaxLen == 2

FileSizes == {0, 1, 60, 61} \cup { (k * 1024) + d : k \in 1..MaxLen, d \in {0, 1} }

FileLayouts ==
    { <<"extents", <<>> >> }
    \cup { <<"extents", << <<5, l>> >> >> : l \in 1..MaxLen }
    \cup { <<"extents", << <<5, 1>>, <<6, l>> >> >> : l \in 1..MaxLen }
    \cup { <<"inline", <<>> >>, <<"mapped", <<>> >> }

FileFixtures ==
    { [fam |-> "file", p |-> <<size, lay[1], lay[2]>>] :
        size \in FileSizes, lay \in FileLayouts }

FileImage(p) ==
    MkImage(G0,
        WithInode(3,
            [i_mode |-> 33188, i_size_lo |-> p[1], i_atime |-> 30, i_mtime |-> 40,
             i_flags |-> IF p[2] = "extents" THEN EXTENTS_FL
                         ELSE IF p[2] = "inline" THEN INLINE_FL ELSE 0,
             i_block |-> IF p[2] = "extents" THEN Leaf(p[3])
                         ELSE BFill(120, IBlockLen)]),
        PlainBlocks(G0))

\* Symlinks (inode 4): every size_lo of LinkSizes over the i_block contents of
\* LinkBlocks: ASCII and two-byte UTF-8 targets padded with zero bytes, a
\* target followed by a byte that is not UTF-8, and sixty letters.
LinkSizes == {0, 1, 2, 3, 60, 61}

LinkTargets ==
    { <<97>>, <<97, 98>>, <<195, 169>>, <<195, 169, 97>>, <<97, 255>>,
      <<97, 195>> }

LinkBlocks ==
    { BCat(BLit(t), BFill(0, IBlockLen - Len(t))) : t \in LinkTargets }
    \cup { BFill(97, IBlockLen) }

LinkFixtures ==
    { [fam |-> "link", p |-> <<size, blk>>] : size \in LinkSizes, blk \in LinkBlocks }

LinkImage(p) == MkImage(G0, WithInode(4, LinkInode(p[1], p[2])), PlainBlocks(G0))

\* Extent trees (inode 3).  A tree is [d, sub]: at depth d = 0 sub lists the
\* leaf slots <<start, len>>, at depth d > 0 it lists the child trees.  The
\* leaves keep up to MaxSlots slots, the index nodes up to MaxFanout children.
MaxSlots == 2

MaxFanout == 2

TreeSlots == { <<5, 1>>, <<6, 2>> }

SeqsUpTo(S, n) == UNION { [1..k -> S] : k \in 0..n }

LeafTrees == { [d |-> 0, sub |-> s] : s \in SeqsUpTo(TreeSlots, MaxSlots) }

SomeLeaves ==
    { [d |-> 0, sub |-> <<>>], [d |-> 0, sub |-> << <<5, 1>> >>],
      [d |-> 0, sub |-> << <<6, 1>>, <<7, 1>> >>] }

IndexTrees ==
    { [d |-> 1, sub |-> s] : s \in SeqsUpTo(SomeLeaves, MaxFanout) \ {<<>>} }

SomeIndexes ==
    { [d |-> 1, sub |-> << [d |-> 0, sub |-> << <<5, 1>> >>],
                           [d |-> 0, sub |-> << <<6, 1>> >>] >>],
      [d |-> 1, sub |-> << [d |-> 0, sub |-> << <<7, 2>> >>] >>] }

DeepTrees ==
    { [d |-> 2, sub |-> s] : s \in SeqsUpTo(SomeIndexes, MaxFanout) \ {<<>>} }

TreeFixtures ==
    { [fam |-> "tree", p |-> <<t>>] : t \in LeafTrees \cup IndexTrees \cup DeepTrees }

\* The first block the nodes of a tree are written to.
FirstNodeBlock == 16

\* The node of a tree and the blocks of the nodes under it, written from
\* block `free` on: [node, blocks, free].
RECURSIVE PackTree(_, _)
RECURSIVE PackChildren(_, _, _, _)
PackChild(cs, free, slots, blocks, child) ==
    PackChildren(Tail(cs), child.free, Append(slots, <<free>>),
                 blocks \o << <<free, child.node>> >> \o child.blocks)

PackChildren(cs, free, slots, blocks) ==
    IF cs = <<>> THEN [slots |-> slots, blocks |-> blocks, free |-> free]
    ELSE PackChild(cs, free, slots, blocks, PackTree(cs[1], free + 1))

PackIndex(t, k) ==
    [node |-> PackExtentNode(EXTENT_MAGIC, Len(k.slots), t.d, k.slots),
     blocks |-> k.blocks, free |-> k.free]

PackTree(t, free) ==
    IF t.d = 0
    THEN [node |-> Leaf(t.sub), blocks |-> <<>>, free |-> free]
    ELSE PackIndex(t, PackChildren(t.sub, free, <<>>, <<>>))

\* size_lo of the tree files: more than any tree holds
TreeSize == 65536

TreeImageOf(packed) ==
    MkImage(G0,
        WithInode(3, [i_mode |-> 33188, i_size_lo |-> TreeSize, i_atime |-> 30,
                      i_mtime |-> 40, i_flags |-> EXTENTS_FL,
                      i_block |-> packed.node]),
        PlainBlocks(G0) \o packed.blocks)

TreeImage(p) == TreeImageOf(PackTree(p[1], FirstNodeBlock))

\* Directories (inode 2): the records of the root, in the V2 layout or the
\* classic one, well formed or not.
DirKinds ==
    { "plain", "kinds", "reclen0", "shorttail", "badname", "tombstone",
      "overshoot" }

DirFixtures ==
    { [fam |-> "dir", p |-> <<v2, k>>] : v2 \in BOOLEAN, k \in DirKinds }

DirRecs(k) ==
    CASE k = "plain" ->
            << DirRec(2, 12, <<46>>, 2), DirRec(2, 12, <<46, 46>>, 2),
               DirRec(3, 12, <<97>>, 1), DirRec(4, 988, <<98>>, 7) >>
      [] k = "kinds" ->
            << DirRec(2, 12, <<46>>, 2), DirRec(3, 12, <<97>>, 1),
               DirRec(4, 12, <<98>>, 7), DirRec(5, 12, <<99>>, 5),
               DirRec(6, 976, <<100>>, 3) >>
      [] k = "reclen0" ->
            << DirRec(2, 12, <<46>>, 2), DirRec(3, 0, <<97>>, 1) >>
      [] k = "shorttail" ->
            << DirRec(2, 12, <<46>>, 2), DirRec(3, 1008, <<97>>, 1) >>
      [] k = "badname" ->
            << DirRec(2, 12, <<46>>, 2), DirRec(3, 1012, <<255>>, 1) >>
      [] k = "tombstone" ->
            << DirRec(2, 12, <<46>>, 2), DirRec(0, 12, <<97>>, 0),
               DirRec(3, 1000, <<98>>, 1) >>
      [] k = "overshoot" ->
            << DirRec(2, 12, <<46>>, 2), DirRec(3, 2000, <<97>>, 1) >>

DirGeometry(v2) ==
    Geometry(8, 16, 128, 0, IF v2 THEN FILETYPE ELSE 0, SUPERBLOCK_MAGIC)

\* inodes 5 and 6 are a fifo and a character device
DirInodes ==
    PlainInodes
    \o << <<5, [i_mode |-> 4516, i_size_lo |-> 0, i_atime |-> 0, i_mtime |-> 0,
                i_flags |-> 0, i_block |-> <<>>]>>,
          <<6, [i_mode |-> 8612, i_size_lo |-> 0, i_atime |-> 0, i_mtime |-> 0,
                i_flags |-> 0, i_block |-> <<>>]>> >>

DirImage(p) ==
    MkImage(DirGeometry(p[1]), DirInodes,
        << <<8, PackDir(p[1], BFill(0, 1024), 0, DirRecs(p[2]))>>,
           DataBlock(5, G0) >>)

\* Trees to extract.  "plain": the file a, the symlink b -> a, the directory d
\* with the file c in it, and the fifo e.  "tmp": the symlink a -> z and the
\* file a.tmp.  "dup": the name x twice, a file and then a symlink -> y.
\* The others are "plain" with something wrong: the superblock magic, the
\* extent magic of a, a without the extents flag, a target of b or a name that
\* is not UTF-8.
RunKinds ==
    { "plain", "tmp", "dup", "badmagic", "badextent", "mapped", "badlink",
      "badname" }

RunFixtures == { [fam |-> "run", p |-> <<k>>] : k \in RunKinds }

RunRecs(k) ==
    CASE k = "tmp" ->
            << DirRec(2, 12, <<46>>, 2), DirRec(2, 12, <<46, 46>>, 2),
               DirRec(4, 12, <<97>>, 7),
               DirRec(3, 988, <<97, 46, 116, 109, 112>>, 1) >>
      [] k = "dup" ->
            << DirRec(2, 12, <<46>>, 2), DirRec(2, 12, <<46, 46>>, 2),
               DirRec(3, 12, <<120>>, 1), DirRec(4, 988, <<120>>, 7) >>
      [] k = "badname" ->
            << DirRec(2, 12, <<46>>, 2), DirRec(2, 12, <<46, 46>>, 2),
               DirRec(3, 1000, <<255>>, 1) >>
      [] OTHER ->
            << DirRec(2, 12, <<46>>, 2), DirRec(2, 12, <<46, 46>>, 2),
               DirRec(3, 12, <<97>>, 1), DirRec(4, 12, <<98>>, 7),
               DirRec(5, 12, <<100>>, 2), DirRec(7, 964, <<101>>, 5) >>

RunFile(k) ==
    IF k = "badextent"
    THEN [FileInode(6, <<>>) EXCEPT
            !.i_block = PackExtentNode(EXTENT_MAGIC + 1, 1, 0, << <<5, 1>> >>)]
    ELSE IF k = "mapped" THEN [FileInode(6, <<>>) EXCEPT !.i_flags = 0]
    ELSE FileInode(6, << <<5, 1>> >>)

RunLink(k) ==
    LinkInode(1, BLit(IF k = "tmp" THEN <<122>>
                      ELSE IF k = "dup" THEN <<121>>
                      ELSE IF k = "badlink" THEN <<255>> ELSE <<97>>))

RunInodes(k) ==
    << <<2, DirInode(8)>>, <<3, RunFile(k)>>, <<4, RunLink(k)>>,
       <<5, DirInode(9)>>, <<6, FileInode(3, << <<6, 1>> >>)>>,
       <<7, [i_mode |-> 4516, i_size_lo |-> 0, i_atime |-> 0, i_mtime |-> 0,
             i_flags |-> 0, i_block |-> <<>>]>> >>

RunImage(p) ==
    MkImage(Geometry(8, 16, 128, 0, FILETYPE,
                     IF p[1] = "badmagic" THEN SUPERBLOCK_MAGIC + 1
                     ELSE SUPERBLOCK_MAGIC),
        RunInodes(p[1]),
        << <<8, PackDir(TRUE, BFill(0, 1024), 0, RunRecs(p[1]))>>,
           <<9, PackDir(TRUE, BFill(0, 1024), 0,
                    << DirRec(5, 12, <<46>>, 2), DirRec(2, 12, <<46, 46>>, 2),
                       DirRec(6, 1000, <<99>>, 1) >>)>>,
           DataBlock(5, G0), DataBlock(6, G0) >>)

Image(fx) ==
    CASE fx.fam = "run"  -> RunImage(fx.p)
      [] fx.fam = "geo"  -> GeoImage(fx.p)
      [] fx.fam = "bad"  -> BadImage(fx.p)
      [] fx.fam = "file" -> FileImage(fx.p)
      [] fx.fam = "link" -> LinkImage(fx.p)
      [] fx.fam = "tree" -> TreeImage(fx.p)
      [] fx.fam = "dir"  -> DirImage(fx.p)

(***************************************************************************)
(* The facade as a state machine: an Ext4 object on an image, and calls of *)
(* read_dir, read_file and read_link on it.  read_dir runs its loop one    *)
(* iteration per step.                                                     *)
(***************************************************************************)
VARIABLES
    fixture,   \* the parameters of the image
    image,     \* the bytes of the image file
    self,      \* the Ext4 object: superblock, block_size, f (the open file)
    pc,        \* where the program stands
    frame,     \* the locals of the running read_dir
    ret,       \* the last call: what was called and what it returned or raised
    args,      \* the command line of the extraction run
    host,      \* the output tree on the host: path -> node
    tables,    \* the sidecar files and the handles open on them
    stack,     \* the running _extract_dir calls, innermost last
    run,       \* 1 for the first extraction run, 2 for the second
    before     \* the host and the sidecar files when the current run started

vars ==
    <<fixture, image, self, pc, frame, ret, args, host, tables, stack, run,
      before>>

\* What the facade calls leave alone.
runvars == <<args, host, tables, stack, run, before>>

\* The inode numbers the calls are made with.
MaxInodeNum == 5

InodeNums == 0..MaxInodeNum

\* The iterations a read_dir loop is followed for.
MaxEntries == 5

NoFrame == [inode_num |-> 0, dir_raw |-> <<>>, offset |-> 0, dir_data |-> <<>>]

NoRet == [op |-> "", arg |-> 0, err |-> OK, val |-> <<>>,
          inode |-> NoInode, bg |-> 0, idx |-> 0, log |-> <<>>,
          moved |-> FALSE]

\* A call starts with an empty log of seeks and reads.
Called(obj) == [obj EXCEPT !.f.log = <<>>]

\* Where load leaves the cursor: behind the 204 bytes of the superblock.
LoadedPos == 1024 + 204

\* What a call leaves in ret; moved tells of a read_file that it found the
\* cursor where an earlier call, not load, had left it.
Ret(op, arg, err, val, ri, obj) ==
    [op |-> op, arg |-> arg, err |-> err, val |-> val,
     inode |-> ri.inode, bg |-> ri.bg, idx |-> ri.idx, log |-> obj.f.log,
     moved |-> op = "read_file" /\ self.f.pos # LoadedPos]

NoTable == [exists |-> FALSE, lines |-> <<>>, handle |-> "none"]

NoTables == [sym |-> NoTable, meta |-> NoTable]

NoArgs == [app |-> "", mode |-> "", symlinks |-> FALSE, metadata |-> FALSE]

InitOn(fixtures) ==
    /\ fixture \in fixtures
    /\ image = Image(fixture)
    /\ self = Ext4Init
    /\ pc = "new"
    /\ frame = NoFrame
    /\ ret = NoRet
    /\ args = NoArgs
    /\ host = <<>>
    /\ tables = NoTables
    /\ stack = <<>>
    /\ run = 0
    /\ before = [host |-> <<>>, tables |-> NoTables]

Loaded(r) ==
    /\ self' = r.self
    /\ pc' = IF r.err = OK THEN "idle" ELSE "failed"
    /\ ret' = [NoRet EXCEPT !.op = "load", !.err = r.err, !.log = r.self.f.log]

\* Ext4(filename)
Load ==
    /\ pc = "new"
    /\ Loaded(load(image))
    /\ UNCHANGED <<fixture, image, frame>>
    /\ UNCHANGED runvars

ReadDirEntered(n, ri, en) ==
    /\ self' = en.self
    /\ IF en.err = OK
       THEN /\ pc' = "read_dir"
            /\ frame' = [inode_num |-> n, dir_raw |-> en.dir_raw,
                         offset |-> 0, dir_data |-> <<>>]
            /\ ret' = Ret("read_dir:running", n, OK, <<>>, ri, en.self)
       ELSE /\ pc' = "idle"
            /\ frame' = NoFrame
            /\ ret' = Ret("read_dir", n, en.err, <<>>, ri, en.self)

\* read_dir(n) up to its loop
ReadDirCall(n) ==
    /\ pc = "idle"
    /\ ReadDirEntered(n, read_inode(image, Called(self), n),
                      read_dir_enter(image, Called(self), n))
    /\ UNCHANGED <<fixture, image>>
    /\ UNCHANGED runvars

ReadDirStepped(st) ==
    /\ self' = st.self
    /\ IF st.err = OK
       THEN /\ pc' = "read_dir"
            /\ frame' = [frame EXCEPT !.offset = @ + st.rec_len,
                                      !.dir_data = Append(@, st.entry)]
            /\ ret' = [ret EXCEPT !.log = st.self.f.log]
       ELSE /\ pc' = "idle"
            /\ frame' = NoFrame
            /\ ret' = [ret EXCEPT !.op = "read_dir", !.err = st.err,
                                  !.log = st.self.f.log]

\* one iteration of read_dir's loop
ReadDirStep ==
    /\ pc = "read_dir"
    /\ frame.offset < BLen(frame.dir_raw)
    /\ Len(frame.dir_data) < MaxEntries
    /\ ReadDirStepped(dir_step(image, self, frame.dir_raw, frame.offset))
    /\ UNCHANGED <<fixture, image>>
    /\ UNCHANGED runvars

\* read_dir's loop ends and the call returns dir_data
ReadDirReturn ==
    /\ pc = "read_dir"
    /\ ~(frame.offset < BLen(frame.dir_raw))
    /\ pc' = "idle"
    /\ ret' = [ret EXCEPT !.op = "read_dir", !.val = frame.dir_data]
    /\ frame' = NoFrame
    /\ UNCHANGED <<fixture, image, self>>
    /\ UNCHANGED runvars

ReadFileDone(n, ri, r) ==
    /\ self' = r.self
    /\ ret' = Ret("read_file", n, r.err,
                  [data |-> r.data, atime |-> r.atime, mtime |-> r.mtime],
                  ri, r.self)

ReadFile(n) ==
    /\ pc = "idle"
    /\ ReadFileDone(n, read_inode(image, Called(self), n),
                    read_file(image, Called(self), n))
    /\ UNCHANGED <<fixture, image, pc, frame>>
    /\ UNCHANGED runvars

ReadLinkDone(n, ri, r) ==
    /\ self' = r.self
    /\ ret' = Ret("read_link", n, r.err, r.text, ri, r.self)

ReadLink(n) ==
    /\ pc = "idle"
    /\ ReadLinkDone(n, read_inode(image, Called(self), n),
                    read_link(image, Called(self), n))
    /\ UNCHANGED <<fixture, image, pc, frame>>
    /\ UNCHANGED runvars

Next ==
    \/ Load
    \/ \E n \in InodeNums : ReadDirCall(n)
    \/ ReadDirStep
    \/ ReadDirReturn
    \/ \E n \in InodeNums : ReadFile(n)
    \/ \E n \in InodeNums : ReadLink(n)

\* Inode addressing over the geometries
InitGeo == InitOn(GeoFixtures \cup BadFixtures)

SpecGeo == InitGeo /\ [][Next]_vars

\* Regular files
InitFile == InitOn(FileFixtures)

SpecFile == InitFile /\ [][Next]_vars

\* Symlinks
InitLink == InitOn(LinkFixtures)

SpecLink == InitLink /\ [][Next]_vars

\* Extent trees
InitTree == InitOn(TreeFixtures)

SpecTree == InitTree /\ [][Next]_vars

\* Directories
InitDir == InitOn(DirFixtures)

SpecDir == InitDir /\ [][Next]_vars

(***************************************************************************)
(* The host file system under the output directory.  A path is the         *)
(* sequence of its names below the output directory, <<>> the output       *)
(* directory itself; host maps the paths that exist to their nodes.  The   *)
(* names the program joins to a path are single names without '/', and so  *)
(* are the symlink targets that are followed.                              *)
(***************************************************************************)
Front(q) == SubSeq(q, 1, Len(q) - 1)

\* A time stamp the program did not set: the clock when the node was written,
\* which is later in a later run (and told from the times of an image by its
\* sign).
Clock == 0 - run

DirNode ==
    [kind |-> "dir", data |-> <<>>, target |-> <<>>, atime |-> Clock,
     mtime |-> Clock]

FileNode(data) ==
    [kind |-> "file", data |-> data, target |-> <<>>, atime |-> Clock,
     mtime |-> Clock]

LinkNode(target) ==
    [kind |-> "link", data |-> <<>>, target |-> target, atime |-> Clock,
     mtime |-> Clock]

Put(h, q, node) == [x \in (DOMAIN h) \cup {q} |-> IF x = q THEN node ELSE h[x]]

Remove(h, q) == [x \in (DOMAIN h) \ {q} |-> h[x]]

\* The symlinks followed while a path is resolved before ELOOP is raised.
MaxSymlinks == 2

\* The path a path names once the symlinks in it are followed: [err, path].
RECURSIVE Resolve(_, _, _)
ResolveLast(h, q, fuel) ==
    IF q \in DOMAIN h /\ h[q].kind = "link"
    THEN IF fuel = 0 THEN [err |-> "OSError", path |-> q]
         ELSE Resolve(h, Append(Front(q), h[q].target), fuel - 1)
    ELSE [err |-> OK, path |-> q]

ResolveIn(h, name, fuel, par) ==
    IF par.err # OK THEN par ELSE ResolveLast(h, Append(par.path, name), fuel)

Resolve(h, q, fuel) ==
    IF q = <<>> THEN [err |-> OK, path |-> <<>>]
    ELSE ResolveIn(h, q[Len(q)], fuel, Resolve(h, Front(q), fuel))

\* The same without following a symlink that is the last name of the path.
LResolveIn(name, par) ==
    IF par.err # OK THEN par ELSE [err |-> OK, path |-> Append(par.path, name)]

LResolve(h, q) ==
    IF q = <<>> THEN [err |-> OK, path |-> <<>>]
    ELSE LResolveIn(q[Len(q)], Resolve(h, Front(q), MaxSymlinks))

\* Why a node cannot be made at q, if it cannot: its parent is no directory.
\* The directory the output directory is made in exists.
ParentError(h, q) ==
    IF q = <<>> THEN OK
    ELSE IF Front(q) \notin DOMAIN h THEN "FileNotFoundError"
    ELSE IF h[Front(q)].kind # "dir" THEN "NotADirectoryError"
    ELSE OK

HostErr(e, h) == [err |-> e, host |-> h]

\* os.mkdir(path)
os_mkdir_at(h, r) ==
    IF r.err # OK THEN HostErr(r.err, h)
    ELSE IF r.path \in DOMAIN h THEN HostErr("FileExistsError", h)
    ELSE IF ParentError(h, r.path) # OK THEN HostErr(ParentError(h, r.path), h)
    ELSE HostErr(OK, Put(h, r.path, DirNode))

os_mkdir(h, q) == os_mkdir_at(h, LResolve(h, q))

\* open(path, 'w+b'), write(data), close(): the file is made or truncated
open_write_at(h, r, data) ==
    IF r.err # OK THEN HostErr(r.err, h)
    ELSE IF r.path \in DOMAIN h /\ h[r.path].kind = "dir"
    THEN HostErr("IsADirectoryError", h)
    ELSE IF ParentError(h, r.path) # OK THEN HostErr(ParentError(h, r.path), h)
    ELSE HostErr(OK, Put(h, r.path, FileNode(data)))

open_write(h, q, data) == open_write_at(h, Resolve(h, q, MaxSymlinks), data)

\* os.utime(path, (atime, mtime))
os_utime_at(h, r, atime, mtime) ==
    IF r.err # OK THEN HostErr(r.err, h)
    ELSE IF r.path \notin DOMAIN h THEN HostErr("FileNotFoundError", h)
    ELSE HostErr(OK, [h EXCEPT ![r.path].atime = atime, ![r.path].mtime = mtime])

os_utime(h, q, atime, mtime) ==
    os_utime_at(h, Resolve(h, q, MaxSymlinks), atime, mtime)

\* os.symlink(target, path)
os_symlink_at(h, target, r) ==
    IF r.err # OK THEN HostErr(r.err, h)
    ELSE IF target = <<>> THEN HostErr("FileNotFoundError", h)
    ELSE IF r.path \in DOMAIN h THEN HostErr("FileExistsError", h)
    ELSE IF ParentError(h, r.path) # OK THEN HostErr(ParentError(h, r.path), h)
    ELSE HostErr(OK, Put(h, r.path, LinkNode(target)))

os_symlink(h, target, q) == os_symlink_at(h, target, LResolve(h, q))

\* os.rename(src, dst) of a node that is no directory
os_rename_at(h, s, d) ==
    IF s.err # OK THEN HostErr(s.err, h)
    ELSE IF d.err # OK THEN HostErr(d.err, h)
    ELSE IF s.path \notin DOMAIN h THEN HostErr("FileNotFoundError", h)
    ELSE IF d.path \in DOMAIN h /\ h[d.path].kind = "dir"
    THEN HostErr("IsADirectoryError", h)
    ELSE IF s.path = d.path THEN HostErr(OK, h)
    ELSE HostErr(OK, Remove(Put(h, d.path, h[s.path]), s.path))

os_rename(h, src, dst) == os_rename_at(h, LResolve(h, src), LResolve(h, dst))

(***************************************************************************)
(* class Application: an extraction run.  args.app tells which of the two  *)
(* Application classes runs: the one of app.py, with the sidecar tables,   *)
(* or the one of ext4extract.py.                                           *)
(***************************************************************************)
Modes == {"save", "text", "empty", "skip"}

Commands ==
    { [app |-> "app.py", mode |-> m, symlinks |-> sy, metadata |-> me] :
        m \in Modes, sy \in BOOLEAN, me \in BOOLEAN }
    \cup { [app |-> "ext4extract.py", mode |-> m, symlinks |-> FALSE,
            metadata |-> FALSE] : m \in Modes }

\* What is on the host before the first run: nothing, or the output
\* directory and both sidecar files, left by some earlier use.
OldTable == [exists |-> TRUE, lines |-> <<"old">>, handle |-> "none"]

Hosts ==
    { [host |-> <<>>, tables |-> NoTables],
      [host |-> Put(<<>>, <<>>, [DirNode EXCEPT !.atime = 0, !.mtime = 0]),
       tables |-> [sym |-> OldTable, meta |-> OldTable]] }

\* Ext4.read_meta of the ext4 package, called by app.py line 106: the fields
\* of the inode projected into the Metadata record.
read_meta_inode(inode_num, ri) ==
    [err  |-> ri.err,
     meta |-> [inode |-> inode_num, type |-> mode_type(ri.inode.i_mode),
               size |-> ri.inode.i_size_lo, ctime |-> ri.inode.i_ctime,
               mtime |-> ri.inode.i_mtime, uid |-> ri.inode.i_uid,
               gid |-> ri.inode.i_gid, mode |-> ri.inode.i_mode],
     self |-> ri.self]

read_meta(img, obj, inode_num) ==
    read_meta_inode(inode_num, read_inode(img, obj, inode_num))

IsDot(name) == name = BLit(<<46>>) \/ name = BLit(<<46, 46>>)

\* link + ".tmp"
TmpName(q) == Append(Front(q), BCat(q[Len(q)], BLit(<<46, 116, 109, 112>>)))

\* The statements of one iteration of _extract_dir's loop, one after the
\* other.  Each takes what the ones before left: st = [err, self, host,
\* tables, val], val the value of the last facade call; after an exception
\* the rest does nothing.
St == [err |-> OK, self |-> self, host |-> host, tables |-> tables, val |-> <<>>]

st_host(st, r) == [st EXCEPT !.err = r.err, !.host = r.host]

\* app.py lines 67-68 and _write_meta
st_meta_line(st, path, r) ==
    IF r.err # OK THEN [st EXCEPT !.err = r.err, !.self = r.self]
    ELSE [st EXCEPT !.self = r.self,
                    !.tables.meta.lines =
                        Append(@, [path |-> path, meta |-> r.meta])]

st_meta(st, de, rpath) ==
    IF args.app # "app.py" \/ st.tables.meta.handle # "open" THEN st
    ELSE st_meta_line(st, Append(rpath, de.name),
                      read_meta(image, st.self, de.inode))

\* self._ext4.read_file(de.inode), self._ext4.read_link(de.inode)
st_called(st, r, val) == [st EXCEPT !.err = r.err, !.self = r.self, !.val = val]

st_read_file(st, de) ==
    IF st.err # OK THEN st
    ELSE st_called(st, read_file(image, st.self, de.inode),
                   read_file(image, st.self, de.inode))

st_read_link(st, de) ==
    IF st.err # OK THEN st
    ELSE st_called(st, read_link(image, st.self, de.inode),
                   read_link(image, st.self, de.inode).text)

\* app.py lines 71-74, ext4extract.py lines 334-337
st_write_file(st, q) ==
    IF st.err # OK THEN st ELSE st_host(st, open_write(st.host, q, st.val.data))

st_utime(st, q) ==
    IF st.err # OK THEN st
    ELSE st_host(st, os_utime(st.host, q, st.val.atime, st.val.mtime))

\* app.py lines 81-82 and _write_symlink
st_symltbl(st, de, rpath) ==
    IF st.err # OK \/ args.app # "app.py" \/ st.tables.sym.handle # "open"
    THEN st
    ELSE [st EXCEPT !.tables.sym.lines =
                        Append(@, [link |-> Append(rpath, de.name),
                                   target |-> st.val])]

\* app.py lines 83-93, ext4extract.py lines 347-355
st_rename(st, q) ==
    IF st.err # OK THEN st ELSE st_host(st, os_rename(st.host, TmpName(q), q))

st_link(st, q) ==
    IF st.err # OK \/ args.mode = "skip" THEN st
    ELSE IF args.mode = "text"
    THEN st_host(st, open_write(st.host, q, utf8_encode(st.val)))
    ELSE IF args.mode = "empty" THEN st_host(st, open_write(st.host, q, <<>>))
    ELSE st_rename(st_host(st, os_symlink(st.host, st.val, TmpName(q))), q)

\* self._ext4.read_dir(de.inode)
st_read_dir(st, de) ==
    IF st.err # OK THEN st
    ELSE st_called(st, read_dir(image, st.self, de.inode),
                   read_dir(image, st.self, de.inode).dir_data)

NewFrame(dir_data, path, rpath) ==
    [dir_data |-> dir_data, i |-> 1, path |-> path, rpath |-> rpath,
     entered |-> FALSE]

Top == stack[Len(stack)]

TopEntry == Top.dir_data[Top.i]

InLoop == pc = "walk" /\ Top.entered /\ Top.i <= Len(Top.dir_data)

\* The entries an iteration does nothing with or, in app.py, nothing but
\* the metadata line.
Passed(de) ==
    IF args.app = "app.py" THEN IsDot(de.name) \/ de.type \notin {1, 2, 7}
    ELSE \/ de.type \notin {1, 2, 7}
         \/ de.type = 2 /\ IsDot(de.name)
         \/ de.type = 7 /\ args.mode = "skip"

\* An exception leaves the run; a read_dir that does not return leaves it
\* running for ever.
Outcome(st, walked) ==
    /\ self' = st.self
    /\ host' = st.host
    /\ tables' = st.tables
    /\ IF st.err = OK
       THEN pc' = "walk" /\ stack' = walked /\ ret' = ret
       ELSE /\ pc' = IF st.err = "NoReturn" THEN "hung" ELSE "raised"
            /\ stack' = stack
            /\ ret' = [NoRet EXCEPT !.op = "run", !.err = st.err]

Advanced == [stack EXCEPT ![Len(stack)].i = @ + 1]

\* Application.run, app.py lines 120-123: the sidecar files are opened "w+"
RunOpenTables ==
    /\ pc = "start"
    /\ tables' =
          IF args.app # "app.py" THEN tables
          ELSE [sym  |-> IF args.symlinks
                         THEN [exists |-> TRUE, lines |-> <<>>, handle |-> "open"]
                         ELSE tables.sym,
                meta |-> IF args.metadata
                         THEN [exists |-> TRUE, lines |-> <<>>, handle |-> "open"]
                         ELSE tables.meta]
    /\ pc' = "extract"
    /\ UNCHANGED <<fixture, image, self, frame, ret, args, host, stack, run,
                   before>>

RunLoaded(r) ==
    /\ self' = r.self
    /\ IF r.err = OK
       THEN pc' = "root" /\ ret' = ret
       ELSE pc' = "raised" /\ ret' = [NoRet EXCEPT !.op = "run", !.err = r.err]

\* Application._do_extract, first line: Ext4(filename)
RunLoad ==
    /\ pc = "extract"
    /\ RunLoaded(load(image))
    /\ UNCHANGED <<fixture, image, frame, args, host, tables, stack, run, before>>

RunRooted(r) ==
    /\ self' = r.self
    /\ IF r.err = OK
       THEN /\ pc' = "walk"
            /\ stack' = << NewFrame(r.dir_data, <<>>, <<>>) >>
            /\ ret' = ret
       ELSE /\ pc' = IF r.err = "NoReturn" THEN "hung" ELSE "raised"
            /\ stack' = stack
            /\ ret' = [NoRet EXCEPT !.op = "run", !.err = r.err]

\* Application._do_extract, second line: self._ext4.root, the argument of
\* _extract_dir
RunRoot ==
    /\ pc = "root"
    /\ RunRooted(read_dir(image, self, 2))
    /\ UNCHANGED <<fixture, image, frame, args, host, tables, run, before>>

RunMkdirDone(r) ==
    IF r.err \in {OK, "FileExistsError"}
    THEN /\ host' = r.host
         /\ stack' = [stack EXCEPT ![Len(stack)].entered = TRUE]
         /\ pc' = "walk" /\ ret' = ret
    ELSE /\ host' = r.host
         /\ stack' = stack
         /\ pc' = "raised" /\ ret' = [NoRet EXCEPT !.op = "run", !.err = r.err]

\* _extract_dir up to its loop: os.mkdir(path), an existing path let pass
RunMkdir ==
    /\ pc = "walk" /\ ~Top.entered
    /\ RunMkdirDone(os_mkdir(host, Top.path))
    /\ UNCHANGED <<fixture, image, self, frame, args, tables, run, before>>

\* an iteration for an entry that is passed over
RunPass ==
    /\ InLoop /\ Passed(TopEntry)
    /\ Outcome(IF IsDot(TopEntry.name) THEN St
               ELSE st_meta(St, TopEntry, Top.rpath),
               Advanced)
    /\ UNCHANGED <<fixture, image, frame, args, run, before>>

\* an iteration for a regular file
RunFileEntry ==
    /\ InLoop /\ ~Passed(TopEntry) /\ TopEntry.type = 1
    /\ Outcome(st_utime(st_write_file(st_read_file(
                            st_meta(St, TopEntry, Top.rpath), TopEntry),
                        Append(Top.path, TopEntry.name)),
                   Append(Top.path, TopEntry.name)),
               Advanced)
    /\ UNCHANGED <<fixture, image, frame, args, run, before>>

\* an iteration for a directory: read_dir, then the call of _extract_dir
RunDirEntry ==
    /\ InLoop /\ ~Passed(TopEntry) /\ TopEntry.type = 2
    /\ Outcome(st_read_dir(st_meta(St, TopEntry, Top.rpath), TopEntry),
               Append(Advanced,
                      NewFrame(read_dir(image,
                                        st_meta(St, TopEntry, Top.rpath).self,
                                        TopEntry.inode).dir_data,
                               Append(Top.path, TopEntry.name),
                               Append(Top.rpath, TopEntry.name))))
    /\ UNCHANGED <<fixture, image, frame, args, run, before>>

\* an iteration for a symlink
RunLinkEntry ==
    /\ InLoop /\ ~Passed(TopEntry) /\ TopEntry.type = 7
    /\ Outcome(st_link(st_symltbl(st_read_link(
                           st_meta(St, TopEntry, Top.rpath), TopEntry),
                       TopEntry, Top.rpath),
                   Append(Top.path, TopEntry.name)),
               Advanced)
    /\ UNCHANGED <<fixture, image, frame, args, run, before>>

\* _extract_dir returns: to the loop of its caller, or to _do_extract
RunReturn ==
    /\ pc = "walk" /\ Top.entered /\ Top.i > Len(Top.dir_data)
    /\ stack' = Front(stack)
    /\ pc' = IF Len(stack) = 1 THEN "close" ELSE "walk"
    /\ UNCHANGED <<fixture, image, self, frame, ret, args, host, tables, run,
                   before>>

CloseTable(t) == IF t.handle = "open" THEN [t EXCEPT !.handle = "closed"] ELSE t

\* Application.run, app.py lines 127-130, and its return
RunCloseTables ==
    /\ pc = "close"
    /\ tables' = [sym |-> CloseTable(tables.sym), meta |-> CloseTable(tables.meta)]
    /\ pc' = "done"
    /\ UNCHANGED <<fixture, image, self, frame, ret, args, host, stack, run,
                   before>>

ForgetHandle(t) == [t EXCEPT !.handle = "none"]

\* The same command once more, over what the first run left
RunAgain ==
    /\ pc = "done" /\ run = 1
    /\ run' = 2
    /\ before' = [host |-> host,
                  tables |-> [sym |-> ForgetHandle(tables.sym),
                              meta |-> ForgetHandle(tables.meta)]]
    /\ tables' = [sym |-> ForgetHandle(tables.sym),
                  meta |-> ForgetHandle(tables.meta)]
    /\ self' = Ext4Init
    /\ pc' = "start"
    /\ UNCHANGED <<fixture, image, frame, ret, args, host, stack>>

NextRun ==
    \/ RunOpenTables
    \/ RunLoad
    \/ RunRoot
    \/ RunMkdir
    \/ RunPass
    \/ RunFileEntry
    \/ RunDirEntry
    \/ RunLinkEntry
    \/ RunReturn
    \/ RunCloseTables
    \/ RunAgain

InitRun ==
    /\ run = 1
    /\ fixture \in RunFixtures
    /\ image = Image(fixture)
    /\ self = Ext4Init
    /\ pc = "start"
    /\ frame = NoFrame
    /\ ret = NoRet
    /\ args \in Commands
    /\ before \in Hosts
    /\ host = before.host
    /\ tables = before.tables
    /\ stack = <<>>

SpecRun == InitRun /\ [][NextRun]_vars

(***************************************************************************)
(* Properties of the facade.                                               *)
(***************************************************************************)
\* The last call ran _read_inode on its argument.
ReadInodeRan == ret.op \in {"read_dir:running", "read_dir", "read_file", "read_link"}

\* C1: read_file of a regular file, when it returns, returns exactly size_lo
\* bytes, whatever amount of data _read_data produced.
ReadFileLength ==
    (ret.op = "read_file" /\ ret.err = OK /\ ModeType(ret.inode.i_mode) = 32768)
        => BLen(ret.val.data) = ret.inode.i_size_lo

\* C3: a call with inode_num < 1 or inode_num > inodes_count fails with
\* InodeOutOfRange, and has read no inode record from the backing source.
InodeRangeChecked ==
    (ReadInodeRan /\ (ret.arg < 1 \/ ret.arg > self.superblock.s_inodes_count))
        => /\ ret.err = "InodeOutOfRange"
           /\ \A k \in 1..Len(ret.log) : ret.log[k] # <<"read", 128>>

\* C4: read_dir's loop terminates: every iteration moves offset forward, so
\* that offset >= len(dir_raw) is reached.
ReadDirAdvances ==
    [][(pc = "read_dir" /\ pc' = "read_dir") => frame'.offset > frame.offset]_vars

\* C5: read_link of a symlink with 1 <= size_lo <= 60 returns the first size_lo
\* bytes of i_block decoded as UTF-8, whatever bytes follow them.
ReadLinkBytes ==
    (/\ ret.op = "read_link"
     /\ ModeType(ret.inode.i_mode) = S_IFLNK
     /\ 1 <= ret.inode.i_size_lo /\ ret.inode.i_size_lo <= 60
     /\ utf8_decode(BTake(ret.inode.i_block, ret.inode.i_size_lo)).err = OK)
        => /\ ret.err = OK
           /\ ret.val = utf8_decode(BTake(ret.inode.i_block,
                                          ret.inode.i_size_lo)).text

\* The kinds of the entries of a directory listing
Kinds(dir_data) == [k \in 1..Len(dir_data) |-> dir_data[k].type]

\* The image that differs from the fixture's only in the FILETYPE bit and the
\* layout of its directory records, and what read_dir returns on it.
V2Twin(fx) == Image([fx EXCEPT !.p[1] = TRUE])

V2TwinDir(fx, inode_num) == read_dir(V2Twin(fx), load(V2Twin(fx)).self, inode_num)

\* C6: with FILETYPE clear, read_dir returns every entry with the kind the
\* mode of its inode maps to: the kinds the V2 twin image yields.
ClassicKinds ==
    (/\ fixture.fam = "dir" /\ fixture.p[1] = FALSE
     /\ fixture.p[2] \in {"plain", "kinds"}
     /\ pc = "idle" /\ ret.op = "read_dir" /\ ret.arg = 2)
        => /\ ret.err = OK
           /\ Kinds(ret.val) = Kinds(V2TwinDir(fixture, 2).dir_data)

\* The bytes of a tree's leaves, depth first, each node's entries from left
\* to right: len * block_size bytes of the image from block start, per slot.
RECURSIVE Flatten(_, _, _)
Flatten(img, bs, t) ==
    IF t.sub = <<>> THEN <<>>
    ELSE BCat(IF t.d = 0
              THEN BSlice(img, t.sub[1][1] * bs, (t.sub[1][1] + t.sub[1][2]) * bs)
              ELSE Flatten(img, bs, t.sub[1]),
              Flatten(img, bs, [t EXCEPT !.sub = Tail(@)]))

\* C7: the extent traversal returns the leaf extents' data concatenated in
\* depth-first, left-to-right entry order, and nothing else.
ExtentOrder ==
    (fixture.fam = "tree" /\ ret.op = "read_file" /\ ret.arg = 3)
        => /\ ret.err = OK
           /\ ret.val.data = BTake(Flatten(image, self.block_size, fixture.p[1]),
                                   ret.inode.i_size_lo)

\* C7, witness: the file of a tree of depth 2 with two index entries in its
\* root has been read.
ExtentOrderWitness ==
    /\ fixture.fam = "tree" /\ fixture.p[1].d = 2 /\ Len(fixture.p[1].sub) = 2
    /\ ret.op = "read_file" /\ ret.arg = 3 /\ ret.err = OK
    /\ BLen(ret.val.data) > 2048

\* C10: _read_inode uses bg = (n-1) div inodes_per_group and idx = (n-1) mod
\* inodes_per_group, so bg * inodes_per_group + idx + 1 = n with
\* 0 <= idx < inodes_per_group, and the root n = 2 resolves to bg 0, idx 1,
\* for every geometry load accepts.
InodeAddressing ==
    ReadInodeRan
        => /\ ret.bg * self.superblock.s_inodes_per_group + ret.idx + 1 = ret.arg
           /\ 0 <= ret.idx /\ ret.idx < self.superblock.s_inodes_per_group
           /\ (ret.arg = 2 => ret.bg = 0 /\ ret.idx = 1)

\* C10, amended: the same with inodes_per_group >= 1, and for the root with
\* inodes_per_group >= 2.
InodeAddressingAmended ==
    (ReadInodeRan /\ self.superblock.s_inodes_per_group >= 1)
        => /\ ret.bg * self.superblock.s_inodes_per_group + ret.idx + 1 = ret.arg
           /\ 0 <= ret.idx /\ ret.idx < self.superblock.s_inodes_per_group
           /\ (ret.arg = 2 /\ self.superblock.s_inodes_per_group >= 2
                  => ret.bg = 0 /\ ret.idx = 1)

\* C10, witness: an inode of the second group has been read.
InodeAddressingWitness ==
    /\ ret.op = "read_file" /\ ret.err = OK
    /\ self.superblock.s_inodes_per_group >= 2
    /\ ret.arg > self.superblock.s_inodes_per_group
    /\ ret.bg = 1

(***************************************************************************)
(* Properties of an extraction run.                                        *)
(***************************************************************************)
Ended == pc \in {"done", "raised"}

SameTable(t, u) == t.exists = u.exists /\ t.lines = u.lines

\* What of a node is told apart: the bytes and the mtime of a file, the
\* target of a symlink, of a directory that it is one.
Seen(node) ==
    CASE node.kind = "file" -> <<"file", node.data, node.mtime>>
      [] node.kind = "link" -> <<"link", node.target>>
      [] OTHER              -> <<"dir">>

SameTree(h, g) == DOMAIN h = DOMAIN g /\ \A q \in DOMAIN h : Seen(h[q]) = Seen(g[q])

\* C2: a run on an image whose superblock magic is not 0xEF53 ends at load
\* with the bad-magic error, and nothing on the host has been created or
\* truncated by then: no directory, file or symlink, and neither sidecar
\* table, whatever the options.
NoOutputOnBadMagic ==
    (fixture.p[1] = "badmagic" /\ pc \notin {"start", "extract"})
        => /\ pc = "raised"
           /\ ret.err = "RuntimeError: Bad superblock magic"
           /\ host = before.host
           /\ SameTable(tables.sym, before.tables.sym)
           /\ SameTable(tables.meta, before.tables.meta)

\* C8: when a run has ended, in its normal way or by an exception, the file
\* handle of the image that load opened is closed.
HandleReleased == Ended => ~self.f.open

\* C9: a second run of the same command on the same image, over what a
\* first run that succeeded left, ends without an exception, and the host
\* tree after it is the tree the first run left: the same directories, the
\* same bytes and mtimes of the files, the same targets of the symlinks.
Idempotent ==
    (run = 2 /\ Ended) => (pc = "done" /\ SameTree(host, before.host))

(***************************************************************************)
(* Properties of the cursor.                                               *)
(***************************************************************************)
\* Every read of a log comes right after a seek.
SeekThenRead(log) ==
    \A k \in 1..Len(log) :
        log[k][1] = "read" => (k > 1 /\ log[k - 1][1] = "seek")

\* The object a fresh Ext4(filename) gives for the image
Fresh == load(image).self

\* C11: every read on the backing source comes right after a seek, in load,
\* _read_group_descriptor, _read_inode and _read_extent, so that what
\* read_dir, read_file and read_link return after any calls before them is
\* what they return on a freshly loaded image: it depends on the image and
\* the inode number only, not on where the cursor was left.
CursorIndependent ==
    /\ SeekThenRead(ret.log)
    /\ ret.op = "read_file"
          => /\ ret.err = read_file(image, Fresh, ret.arg).err
             /\ ret.val.data = read_file(image, Fresh, ret.arg).data
    /\ ret.op = "read_link"
          => /\ ret.err = read_link(image, Fresh, ret.arg).err
             /\ ret.val = read_link(image, Fresh, ret.arg).text
    /\ (ret.op = "read_dir" /\ pc = "idle")
          => /\ ret.err = read_dir(image, Fresh, ret.arg).err
             /\ ret.err = OK => ret.val = read_dir(image, Fresh, ret.arg).dir_data

\* C11, case reached: the file of a tree of depth 2 with two index entries in
\* its root has been read, with a read after the return from the first
\* subtree, by a call that found the cursor where an earlier call left it.
CursorIndependentWitness ==
    /\ fixture.fam = "tree" /\ fixture.p[1].d = 2 /\ Len(fixture.p[1].sub) = 2
    /\ ret.op = "read_file" /\ ret.arg = 3 /\ ret.err = OK
    /\ ret.moved
    /\ Len(ret.log) >= 12
    /\ BLen(ret.val.data) > 2048

=============================================================================
